---------------------------- MODULE Spec2Model ----------------------------
(***************************************************************************)
(* The per-instance lifecycle reconciliation state machine of the OCS      *)
(* HostManager (src/ocs/agent/host_manager.py, resolve_child_state) with   *)
(* the child executors it reads (AgentProcessHelper, DockerContainerHelper)*)
(* and the supervisor/operator environment that drives it.                 *)
(*                                                                         *)
(* Conventions.  Python's None is the empty sequence and a present value x *)
(* is <<x>>.  The clock is in whole seconds; one call of the state machine *)
(* reads one clock value `now` (the source calls time.time() up to twice   *)
(* in a call, microseconds apart).  An executor's status pair              *)
(* (exit_code, observed_at) is modelled by its exit_code alone: the state  *)
(* machine never reads the timestamp.                                      *)
(***************************************************************************)
EXTENDS Integers, Sequences, FiniteSets, TLC

VARIABLES
    db,        \* the instance record handed to resolve_child_state
    now,       \* the wall clock, time.time()
    actions,   \* the Decision returned by the last call
    raised,    \* the exception that escaped the last call ("none" if it returned)
    pending,   \* a launch was requested and the supervisor has not attached prot yet
    op,        \* the last step taken: "init", "tick", "clock" or "env"
    run,       \* consecutive calls since the last change of target or prot from outside
    still,     \* consecutive calls since the last such change or clock change
    backoff,   \* the last failure a call reported, and its clock, while target_state has stayed up
    stability  \* what the last call of stability_factor returned

vars == <<db, now, actions, raised, pending, op, run, still, backoff, stability>>

---------------------------------------------------------------------------
(* Bounds of the model *)

MaxNow == 7
MaxAt == 2
MaxChunks == 1
MaxStarts == 2
MaxRun == 5
MaxLen == 2
MaxSplit == 2

(* Timing constants of the state machine *)

LaunchWait == 1
RetryDelay == 5
ExitCooldown == 3
KillGrace == 5

(* stderr retention and attachment *)

StderrCap == 100
StderrTrimOver == 50
StderrTail == 20

(* stability_factor *)

StabilityCap == 200
Window == 120

---------------------------------------------------------------------------
(* Optional values *)

None == <<>>

Some(x) == <<x>>

NextActions == {"down", "start_at", "start", "wait_start", "up", "wait_dead"}

TargetStates == {"up", "down"}

ExitCodes == {0, 1}

MinOf(s) == CHOOSE x \in {s[i] : i \in 1..Len(s)} : \A j \in 1..Len(s) : x <= s[j]

LastN(s, n) == IF Len(s) <= n THEN s ELSE SubSeq(s, Len(s) - n + 1, Len(s))

---------------------------------------------------------------------------
(* Child executors.  prot is None or <<executor>>. *)

AgentProcessHelper == [kind |-> "native", status |-> None, stderr |-> <<>>]

DockerContainerHelper(running, code) ==
    [kind |-> "docker", status |-> IF running THEN None ELSE Some(code), stderr |-> <<>>]

HasLines(p) == p.kind = "native"

Alive(prot) == prot /= None /\ prot[1].status = None

Dead(prot) == prot /= None /\ prot[1].status /= None

\* '\n'.join(lines): every item must be a str.  The items of lines['stderr']
\* are the chunks errReceived stored, each a list of lines, so the join
\* raises TypeError as soon as there is one item.
JoinRaises(lines) == Len(lines) > 0

errReceived(p, chunk) ==
    LET appended == Append(p.stderr, chunk)
    IN  [p EXCEPT !.stderr = IF Len(appended) > StderrCap
                             THEN LastN(appended, StderrCap) ELSE appended]

processExited(p, code) == [p EXCEPT !.status = Some(code)]

---------------------------------------------------------------------------
(* resolve_child_state.  Each branch yields the record after it, what it   *)
(* put in actions, messages and sleeps, and the exception it raised.       *)

Outcome(d, launch, terminate, messages, sleeps) ==
    [db |-> d, launch |-> launch, terminate |-> terminate,
     messages |-> messages, sleeps |-> sleeps, raised |-> "none"]

Raise(d, exc) ==
    [db |-> d, launch |-> FALSE, terminate |-> FALSE,
     messages |-> <<>>, sleeps |-> <<>>, raised |-> exc]

\* Variant: wait_start that looks at the deadline before prot.
wait_start_deadline_first(d, t) ==
    IF t >= d.at
    THEN Outcome([d EXCEPT !.next_action = "start_at", !.at = t + RetryDelay],
                 FALSE, FALSE,
                 << <<"Launch not detected", d.full_name, "Will retry">> >>, <<>>)
    ELSE IF d.prot /= None
    THEN Outcome([d EXCEPT !.next_action = "up"], FALSE, FALSE,
                 << <<"Launched", d.full_name>> >>, <<>>)
    ELSE Outcome(d, FALSE, FALSE, <<>>, <<>>)

wait_start(d, t) ==
    IF d.prot /= None
    THEN Outcome([d EXCEPT !.next_action = "up"], FALSE, FALSE,
                 << <<"Launched", d.full_name>> >>, <<>>)
    ELSE IF t >= d.at
    THEN Outcome([d EXCEPT !.next_action = "start_at", !.at = t + RetryDelay],
                 FALSE, FALSE,
                 << <<"Launch not detected", d.full_name, "Will retry">> >>, <<>>)
    ELSE Outcome(d, FALSE, FALSE, <<>>, <<>>)


\* Variant: wait_dead that takes a missing prot for one still running.
wait_dead_missing_prot_runs(d, t) ==
    LET stat == IF d.prot = None THEN None ELSE d.prot[1].status
    IN  IF stat /= None
        THEN Outcome([d EXCEPT !.next_action = "down"], FALSE, FALSE, <<>>, <<>>)
        ELSE IF t >= d.at
        THEN Outcome([d EXCEPT !.next_action = "down"], FALSE, FALSE,
                     << <<"Agent instance refused to die", d.full_name>> >>, <<>>)
        ELSE Outcome(d, FALSE, FALSE, <<>>, <<d.at - t>>)

\* Variant: wait_dead that looks at the deadline before the exit code.
wait_dead_deadline_first(d, t) ==
    LET stat == IF d.prot = None THEN Some(0) ELSE d.prot[1].status
    IN  IF t >= d.at
        THEN Outcome([d EXCEPT !.next_action = "down"], FALSE, FALSE,
                     << <<"Agent instance refused to die", d.full_name>> >>, <<>>)
        ELSE IF stat /= None
        THEN Outcome([d EXCEPT !.next_action = "down"], FALSE, FALSE, <<>>, <<>>)
        ELSE Outcome(d, FALSE, FALSE, <<>>, <<d.at - t>>)

wait_dead(d, t) ==
    LET stat == IF d.prot = None THEN Some(0) ELSE d.prot[1].status
    IN  IF stat /= None
        THEN Outcome([d EXCEPT !.next_action = "down"], FALSE, FALSE, <<>>, <<>>)
        ELSE IF t >= d.at
        THEN Outcome([d EXCEPT !.next_action = "down"], FALSE, FALSE,
                     << <<"Agent instance refused to die", d.full_name>> >>, <<>>)
        ELSE Outcome(d, FALSE, FALSE, <<>>, <<d.at - t>>)


\* Variant: start_at that does not wait for its deadline.
target_up_start_at_at_once(d, t) ==
    Outcome([d EXCEPT !.next_action = "start"], FALSE, FALSE, <<>>, <<>>)

target_up_start_at(d, t) ==
    IF t >= d.at
    THEN Outcome([d EXCEPT !.next_action = "start"], FALSE, FALSE, <<>>, <<>>)
    ELSE Outcome(d, FALSE, FALSE, <<>>, <<d.at - t>>)


\* Variant: a launch that sets no detection window (at = now).
target_up_start_no_window(d, t) ==
    IF d.agent_script = None
    THEN Outcome([d EXCEPT !.next_action = "down"], FALSE, FALSE,
                 << <<"No Agent script registered for class", d.class_name>> >>, <<>>)
    ELSE Outcome([d EXCEPT !.prot = None, !.next_action = "wait_start",
                           !.at = t,
                           !.start_times = Append(@, t)],
                 TRUE, FALSE,
                 << <<"Requested launch", d.full_name>> >>, <<>>)

\* Variant: a launch that does not look at agent_script.
target_up_start_unchecked(d, t) ==
    Outcome([d EXCEPT !.prot = None, !.next_action = "wait_start",
                      !.at = t + LaunchWait,
                      !.start_times = Append(@, t)],
            TRUE, FALSE,
            << <<"Requested launch", d.full_name>> >>, <<>>)

\* Variant: a launch that is not entered in start_times.
target_up_start_unrecorded(d, t) ==
    IF d.agent_script = None
    THEN Outcome([d EXCEPT !.next_action = "down"], FALSE, FALSE,
                 << <<"No Agent script registered for class", d.class_name>> >>, <<>>)
    ELSE Outcome([d EXCEPT !.prot = None, !.next_action = "wait_start",
                           !.at = t + LaunchWait],
                 TRUE, FALSE,
                 << <<"Requested launch", d.full_name>> >>, <<>>)

\* Variant: a launch that keeps the executor of the previous run in prot.
target_up_start_keeps_prot(d, t) ==
    IF d.agent_script = None
    THEN Outcome([d EXCEPT !.next_action = "down"], FALSE, FALSE,
                 << <<"No Agent script registered for class", d.class_name>> >>, <<>>)
    ELSE Outcome([d EXCEPT !.next_action = "wait_start",
                           !.at = t + LaunchWait,
                           !.start_times = Append(@, t)],
                 TRUE, FALSE,
                 << <<"Requested launch", d.full_name>> >>, <<>>)

target_up_start(d, t) ==
    IF d.agent_script = None
    THEN Outcome([d EXCEPT !.next_action = "down"], FALSE, FALSE,
                 << <<"No Agent script registered for class", d.class_name>> >>, <<>>)
    ELSE Outcome([d EXCEPT !.prot = None, !.next_action = "wait_start",
                           !.at = t + LaunchWait,
                           !.start_times = Append(@, t)],
                 TRUE, FALSE,
                 << <<"Requested launch", d.full_name>> >>, <<>>)

target_up_up(d, t) ==
    IF d.prot = None
    THEN Raise(d, "AttributeError")
    ELSE LET p == d.prot[1]
             exit == <<"Detected exit", d.full_name, ToString(p.status[1])>>
             trimmed == Len(p.stderr) > StderrTrimOver
             lines == IF trimmed THEN LastN(p.stderr, StderrTail) ELSE p.stderr
             note == IF trimmed THEN " (trimmed)" ELSE ""
             next == [d EXCEPT !.next_action = "start_at", !.at = t + ExitCooldown]
         IN  IF p.status = None
             THEN Outcome(d, FALSE, FALSE, <<>>, <<>>)
             ELSE IF ~HasLines(p)
             THEN Outcome(next, FALSE, FALSE, <<exit>>, <<>>)
             ELSE IF JoinRaises(lines)
             THEN Raise(d, "TypeError")
             ELSE Outcome(next, FALSE, FALSE,
                          <<exit, <<"stderr output", d.full_name, note, "">> >>, <<>>)

target_up(d, t) ==
    IF d.next_action = "start_at" THEN target_up_start_at(d, t)
    ELSE IF d.next_action = "start" THEN target_up_start(d, t)
    ELSE IF d.next_action = "up" THEN target_up_up(d, t)
    ELSE Outcome([d EXCEPT !.next_action = "start"], FALSE, FALSE, <<>>, <<>>)


\* Variant: a termination request that also leaves launch set.
target_down_launch_set(d, t) ==
    IF d.next_action = "down"
    THEN IF Alive(d.prot)
         THEN Outcome([d EXCEPT !.target_state = "up"], FALSE, FALSE,
                      << <<"Detected unexpected session", d.full_name,
                           "changing target state to up">> >>, <<>>)
         ELSE Outcome(d, FALSE, FALSE, <<>>, <<>>)
    ELSE IF d.next_action = "up"
    THEN Outcome([d EXCEPT !.next_action = "wait_dead", !.at = t + KillGrace],
                 TRUE, TRUE,
                 << <<"Requesting termination", d.full_name>> >>, <<>>)
    ELSE Outcome([d EXCEPT !.next_action = "down"], FALSE, FALSE,
                 << <<"Modifying state to idle", d.full_name, d.next_action>> >>, <<>>)

\* Variant: an unexpected session is reported and the target left at down.
target_down_no_flip(d, t) ==
    IF d.next_action = "down"
    THEN IF Alive(d.prot)
         THEN Outcome(d, FALSE, FALSE,
                      << <<"Detected unexpected session", d.full_name,
                           "changing target state to up">> >>, <<>>)
         ELSE Outcome(d, FALSE, FALSE, <<>>, <<>>)
    ELSE IF d.next_action = "up"
    THEN Outcome([d EXCEPT !.next_action = "wait_dead", !.at = t + KillGrace],
                 FALSE, TRUE,
                 << <<"Requesting termination", d.full_name>> >>, <<>>)
    ELSE Outcome([d EXCEPT !.next_action = "down"], FALSE, FALSE,
                 << <<"Modifying state to idle", d.full_name, d.next_action>> >>, <<>>)

\* Variant: the idle state is named as the message names it.
target_down_idle(d, t) ==
    IF d.next_action = "down"
    THEN IF Alive(d.prot)
         THEN Outcome([d EXCEPT !.target_state = "up"], FALSE, FALSE,
                      << <<"Detected unexpected session", d.full_name,
                           "changing target state to up">> >>, <<>>)
         ELSE Outcome(d, FALSE, FALSE, <<>>, <<>>)
    ELSE IF d.next_action = "up"
    THEN Outcome([d EXCEPT !.next_action = "wait_dead", !.at = t + KillGrace],
                 FALSE, TRUE,
                 << <<"Requesting termination", d.full_name>> >>, <<>>)
    ELSE Outcome([d EXCEPT !.next_action = "idle"], FALSE, FALSE,
                 << <<"Modifying state to idle", d.full_name, d.next_action>> >>, <<>>)

target_down(d, t) ==
    IF d.next_action = "down"
    THEN IF Alive(d.prot)
         THEN Outcome([d EXCEPT !.target_state = "up"], FALSE, FALSE,
                      << <<"Detected unexpected session", d.full_name,
                           "changing target state to up">> >>, <<>>)
         ELSE Outcome(d, FALSE, FALSE, <<>>, <<>>)
    ELSE IF d.next_action = "up"
    THEN Outcome([d EXCEPT !.next_action = "wait_dead", !.at = t + KillGrace],
                 FALSE, TRUE,
                 << <<"Requesting termination", d.full_name>> >>, <<>>)
    ELSE Outcome([d EXCEPT !.next_action = "down"], FALSE, FALSE,
                 << <<"Modifying state to idle", d.full_name, d.next_action>> >>, <<>>)

state_machine_failure(d, t) ==
    Outcome(d, FALSE, FALSE,
            << <<"State machine failure", d.next_action, d.target_state>> >>, <<>>)


\* Variant: wait_dead is looked at only after a target of up.
dispatch_target_before_wait_dead(d, t) ==
    IF d.next_action = "wait_start" THEN wait_start(d, t)
    ELSE IF d.target_state = "up" THEN target_up(d, t)
    ELSE IF d.next_action = "wait_dead" THEN wait_dead(d, t)
    ELSE IF d.target_state = "down" THEN target_down(d, t)
    ELSE state_machine_failure(d, t)

dispatch(d, t) ==
    IF d.next_action = "wait_start" THEN wait_start(d, t)
    ELSE IF d.next_action = "wait_dead" THEN wait_dead(d, t)
    ELSE IF d.target_state = "up" THEN target_up(d, t)
    ELSE IF d.target_state = "down" THEN target_down(d, t)
    ELSE state_machine_failure(d, t)

NoDecision == [launch |-> FALSE, terminate |-> FALSE, sleep |-> None, messages |-> <<>>]

resolve_child_state(d, t) ==
    LET o == dispatch(d, t)
    IN  [db |-> o.db,
         raised |-> o.raised,
         actions |-> IF o.raised /= "none" THEN NoDecision
                     ELSE [launch |-> o.launch, terminate |-> o.terminate,
                           sleep |-> IF Len(o.sleeps) > 0
                                     THEN Some(MinOf(o.sleeps)) ELSE None,
                           messages |-> o.messages]]

HasMessage(a, text) == \E i \in 1..Len(a.messages) : a.messages[i][1] = text

---------------------------------------------------------------------------
(* host_master.resolve_child_state, the state machine without container   *)
(* support.  Its sleep starts at 1 s and is lowered by the branches.       *)

MasterSleep == 1

master_wait_start(d, t) ==
    IF d.prot /= None
    THEN Outcome([d EXCEPT !.next_action = "up"], FALSE, FALSE,
                 << <<"Launched", d.full_name>> >>, <<>>)
    ELSE IF t >= d.at
    THEN Outcome([d EXCEPT !.next_action = "start_at", !.at = t + RetryDelay],
                 FALSE, FALSE,
                 << <<"Launch not detected", d.full_name, "Will retry">> >>, <<>>)
    ELSE Outcome(d, FALSE, FALSE, <<>>, <<>>)

master_wait_dead(d, t) ==
    LET stat == IF d.prot = None THEN Some(0) ELSE d.prot[1].status
    IN  IF stat /= None
        THEN Outcome([d EXCEPT !.next_action = "down"], FALSE, FALSE, <<>>, <<>>)
        ELSE IF t >= d.at
        THEN Outcome([d EXCEPT !.next_action = "down"], FALSE, FALSE,
                     << <<"Agent instance refused to die", d.full_name>> >>, <<>>)
        ELSE Outcome(d, FALSE, FALSE, <<>>, <<d.at - t>>)

master_target_up(d, t) ==
    IF d.next_action = "start_at"
    THEN IF t >= d.at
         THEN Outcome([d EXCEPT !.next_action = "start"], FALSE, FALSE, <<>>, <<>>)
         ELSE Outcome(d, FALSE, FALSE, <<>>, <<d.at - t>>)
    ELSE IF d.next_action = "start"
    THEN IF d.agent_script = None
         THEN Outcome([d EXCEPT !.next_action = "down"], FALSE, FALSE,
                      << <<"No Agent script registered for class", d.class_name>> >>, <<>>)
         ELSE Outcome([d EXCEPT !.prot = None, !.next_action = "wait_start",
                                !.at = t + LaunchWait],
                      TRUE, FALSE,
                      << <<"Requested launch", d.full_name>> >>, <<>>)
    ELSE IF d.next_action = "up"
    THEN IF d.prot = None
         THEN Raise(d, "AttributeError")
         ELSE IF d.prot[1].status = None
         THEN Outcome(d, FALSE, FALSE, <<>>, <<>>)
         ELSE Outcome([d EXCEPT !.next_action = "start_at", !.at = t + ExitCooldown],
                      FALSE, FALSE,
                      << <<"Detected exit", d.full_name, ToString(d.prot[1].status[1])>> >>,
                      <<>>)
    ELSE Outcome([d EXCEPT !.next_action = "start"], FALSE, FALSE, <<>>, <<>>)

master_target_down(d, t) ==
    IF d.next_action = "down"
    THEN Outcome(d, FALSE, FALSE, <<>>, <<>>)
    ELSE IF d.next_action = "up"
    THEN Outcome([d EXCEPT !.next_action = "wait_dead", !.at = t + KillGrace],
                 FALSE, TRUE,
                 << <<"Requesting termination", d.full_name>> >>, <<>>)
    ELSE Outcome([d EXCEPT !.next_action = "down"], FALSE, FALSE,
                 << <<"Modifying state to idle", d.full_name, d.next_action>> >>, <<>>)

master_dispatch(d, t) ==
    IF d.next_action = "wait_start" THEN master_wait_start(d, t)
    ELSE IF d.next_action = "wait_dead" THEN master_wait_dead(d, t)
    ELSE IF d.target_state = "up" THEN master_target_up(d, t)
    ELSE IF d.target_state = "down" THEN master_target_down(d, t)
    ELSE state_machine_failure(d, t)

master_resolve_child_state(d, t) ==
    LET o == master_dispatch(d, t)
    IN  [db |-> o.db,
         raised |-> o.raised,
         actions |-> IF o.raised /= "none" THEN NoDecision
                     ELSE [launch |-> o.launch, terminate |-> o.terminate,
                           sleep |-> Some(MinOf(<<MasterSleep>> \o o.sleeps)),
                           messages |-> o.messages]]

---------------------------------------------------------------------------
(* stability_factor.  The factor 1./len(times) is kept as a fraction. *)

Fraction(n, d) == [num |-> n, den |-> d]

\* times[lo:hi] for Python slice bounds counted from the end (lo, hi > 0
\* stand for -lo and -hi): the items from the lo-th last up to, not
\* including, the hi-th last.
SliceFromEnd(times, lo, hi) ==
    LET n == Len(times)
        first == IF n - lo + 1 < 1 THEN 1 ELSE n - lo + 1
    IN  SubSeq(times, first, n - hi)

\* Variant: the cap taken one entry too far back.
stability_factor_cap_off_by_one(times, t, window) ==
    IF Len(times) = 0
    THEN [times |-> times, factor |-> Fraction(-1, 1)]
    ELSE LET Recent(x) == x >= t - window
             culled == SelectSeq(SliceFromEnd(times, StabilityCap + 1, 1), Recent)
                           \o SliceFromEnd(times, 1, 0)
         IN  [times |-> culled, factor |-> Fraction(1, Len(culled))]

stability_factor(times, t, window) ==
    IF Len(times) = 0
    THEN [times |-> times, factor |-> Fraction(-1, 1)]
    ELSE LET Recent(x) == x >= t - window
             culled == SelectSeq(SliceFromEnd(times, StabilityCap, 1), Recent)
                           \o SliceFromEnd(times, 1, 0)
         IN  [times |-> culled, factor |-> Fraction(1, Len(culled))]

NoStability == [times |-> <<>>, factor |-> Fraction(-1, 1)]
---------------------------------------------------------------------------
(* The record after construction and the records a call may be handed *)

Record(script, target, na, at, prot, times) ==
    [full_name |-> "agent1", class_name |-> "Agent", agent_script |-> script,
     target_state |-> target, next_action |-> na, at |-> at, prot |-> prot,
     start_times |-> times]

Scripts == {None, Some("agent.py")}

Chunk == <<"Traceback", "">>

RECURSIVE Chunks(_)
Chunks(n) == IF n = 0 THEN <<>> ELSE Append(Chunks(n - 1), Chunk)

Executors ==
    {[kind |-> "native", status |-> s, stderr |-> Chunks(n)] :
        s \in {None} \cup {Some(c) : c \in ExitCodes}, n \in 0..MaxChunks}
    \cup {DockerContainerHelper(TRUE, 0)}
    \cup {DockerContainerHelper(FALSE, c) : c \in ExitCodes}

Prots == {None} \cup {Some(p) : p \in Executors}

NoBackoff == [kind |-> "none", t |-> 0]

Init ==
    /\ db \in {Record(s, g, "down", 0, None, <<>>) : s \in Scripts, g \in TargetStates}
    /\ now = 0
    /\ actions = NoDecision
    /\ raised = "none"
    /\ pending = FALSE
    /\ op = "init"
    /\ run = 0
    /\ still = 0
    /\ backoff = NoBackoff
    /\ stability = NoStability

InitAny ==
    /\ now \in 0..MaxAt
    /\ db \in {Record(s, g, na, a, p, <<>>) :
                  s \in Scripts, g \in TargetStates,
                  na \in NextActions, a \in 0..MaxAt, p \in Prots}
    /\ actions = NoDecision
    /\ raised = "none"
    /\ pending = FALSE
    /\ op = "init"
    /\ run = 0
    /\ still = 0
    /\ backoff = NoBackoff
    /\ stability = NoStability

---------------------------------------------------------------------------
(* Steps *)

Bump(n) == IF n < MaxRun THEN n + 1 ELSE n

Reported(a, t, b) ==
    IF HasMessage(a, "Detected exit") THEN [kind |-> "exit", t |-> t]
    ELSE IF HasMessage(a, "Launch not detected") THEN [kind |-> "undetected", t |-> t]
    ELSE b

\* One reconciliation tick of the supervisor for this instance.
Tick ==
    LET r == resolve_child_state(db, now)
    IN  /\ Len(r.db.start_times) <= MaxStarts
        /\ db' = r.db
        /\ actions' = r.actions
        /\ raised' = r.raised
        /\ pending' = (pending \/ r.actions.launch)
        /\ op' = "tick"
        /\ run' = Bump(run)
        /\ still' = Bump(still)
        /\ backoff' = IF db.target_state = "up" /\ r.db.target_state = "up"
                       THEN Reported(r.actions, now, backoff) ELSE NoBackoff
        /\ UNCHANGED <<now, stability>>

\* The wall clock moves on.
Advance ==
    /\ now < MaxNow
    /\ now' = now + 1
    /\ op' = "clock"
    /\ still' = 0
    /\ UNCHANGED <<db, actions, raised, pending, run, backoff, stability>>

Outside(d, p) ==
    /\ db' = d
    /\ pending' = p
    /\ op' = "env"
    /\ run' = 0
    /\ still' = 0
    /\ UNCHANGED <<now, actions, raised, stability>>

\* The operator sets the target state.
SetTarget ==
    \E g \in TargetStates :
        /\ g /= db.target_state
        /\ Outside([db EXCEPT !.target_state = g], pending)
        /\ backoff' = NoBackoff

\* The supervisor carries out a launch request: it allocates the executor,
\* launches it and stores it in the record.
Attach ==
    /\ pending
    /\ \E p \in {AgentProcessHelper, DockerContainerHelper(TRUE, 0)} :
           Outside([db EXCEPT !.prot = Some(p)], FALSE)
    /\ UNCHANGED backoff

\* The native child terminates.
ProcessExited ==
    /\ Alive(db.prot)
    /\ db.prot[1].kind = "native"
    /\ \E c \in ExitCodes :
           Outside([db EXCEPT !.prot = Some(processExited(db.prot[1], c))], pending)
    /\ UNCHANGED backoff

\* The native child writes to its standard error.
ErrReceived ==
    /\ Alive(db.prot)
    /\ db.prot[1].kind = "native"
    /\ Len(db.prot[1].stderr) < MaxChunks
    /\ Outside([db EXCEPT !.prot = Some(errReceived(db.prot[1], Chunk))], pending)
    /\ UNCHANGED backoff

\* The container inventory reports on the service of a container executor.
DockerUpdate ==
    /\ db.prot /= None
    /\ db.prot[1].kind = "docker"
    /\ \E running \in BOOLEAN, c \in ExitCodes :
           LET p == DockerContainerHelper(running, c)
           IN  /\ p /= db.prot[1]
               /\ Outside([db EXCEPT !.prot = Some(p)], pending)
    /\ UNCHANGED backoff

\* stability_factor is applied to the start times of the record.
Cull ==
    /\ stability' = stability_factor(db.start_times, now, Window)
    /\ op' = "cull"
    /\ UNCHANGED <<db, now, actions, raised, pending, run, still, backoff>>

Next == Tick \/ Advance \/ SetTarget \/ Attach \/ ProcessExited \/ ErrReceived \/ DockerUpdate

Spec == Init /\ [][Next]_vars

\* A supervised start: target_state stays up, the supervisor carries out
\* each launch request before the clock moves on, the child never exits.
InitLive ==
    /\ db = Record(Some("agent.py"), "up", "down", 0, None, <<>>)
    /\ now = 0
    /\ actions = NoDecision
    /\ raised = "none"
    /\ pending = FALSE
    /\ op = "init"
    /\ run = 0
    /\ still = 0
    /\ backoff = NoBackoff
    /\ stability = NoStability

AdvanceLive == ~pending /\ Advance

NextLive == Tick \/ AdvanceLive \/ Attach \/ ErrReceived

SpecLive == InitLive /\ [][NextLive]_vars /\ WF_vars(Tick) /\ WF_vars(Attach)

NextAny == Tick \/ Advance

SpecAny == InitAny /\ [][NextAny]_vars

\* Any record, with next_action and target_state also outside their
\* enumerations.
InitAll ==
    /\ now \in 0..MaxAt
    /\ db \in {Record(s, g, na, a, p, <<>>) :
                  s \in Scripts, g \in TargetStates \cup {"other"},
                  na \in NextActions \cup {"other"}, a \in 0..MaxAt, p \in Prots}
    /\ actions = NoDecision
    /\ raised = "none"
    /\ pending = FALSE
    /\ op = "init"
    /\ run = 0
    /\ still = 0
    /\ backoff = NoBackoff
    /\ stability = NoStability

SpecAll == InitAll /\ [][NextAny]_vars

\* Start-time histories: k old entries followed by n - k recent ones, for
\* lengths around 0 and around the cap, split near either end.
Ramp(n, k) == [i \in 1..n |-> IF i <= k THEN 0 ELSE 100]

Lengths == (0..MaxLen) \cup {StabilityCap - 1 + i : i \in 0..MaxLen}

Splits(n) == {k \in 0..n : k <= MaxSplit \/ k >= n - MaxSplit}

InitStability ==
    /\ \E n \in Lengths : \E k \in Splits(n) :
           db = Record(Some("agent.py"), "up", "up", 0, Some(AgentProcessHelper), Ramp(n, k))
    /\ now \in {100, 120, 121, 220, 221}
    /\ actions = NoDecision
    /\ raised = "none"
    /\ pending = FALSE
    /\ op = "init"
    /\ run = 0
    /\ still = 0
    /\ backoff = NoBackoff
    /\ stability = NoStability

NextStability == Cull

SpecStability == InitStability /\ [][NextStability]_vars
---------------------------------------------------------------------------
(* Claims *)

TickStep == op' = "tick"

\* C1: no call returns a Decision in which launch and terminate are both true.
C1_LaunchXorTerminate == ~(actions.launch /\ actions.terminate)

C1_Witness == op = "tick" /\ raised = "none" /\ actions.terminate /\ ~actions.launch

\* C2 (as claimed): no exception escapes resolve_child_state on any record
\* reachable from (next_action = down, prot = None).
C2_NoExceptionEscapes == raised = "none"

\* C3 (as claimed): with target_state = down and no live prot, two calls
\* bring next_action to down and it stays there.
C3_DownWithinTwoTicks ==
    (db.target_state = "down" /\ ~Alive(db.prot) /\ run >= 2) => db.next_action = "down"

Waiting(d, t) == d.next_action = "wait_start" /\ d.prot = None /\ t < d.at

\* Calls still needed to reach down when target_state = down and no prot is alive.
Rank(d) ==
    IF d.next_action = "down" THEN 0
    ELSE IF d.next_action \in {"start_at", "start", "wait_dead"} THEN 1
    ELSE IF d.next_action = "up" THEN 2
    ELSE IF d.prot = None THEN 2 ELSE 3

\* C3 (amended): with target_state = down and no live prot, every call made
\* at down leaves the record at down, and every other call brings the record
\* one call nearer to down, which is at most two calls away from down,
\* start_at, start, up and wait_dead and at most three from wait_start; the
\* only calls that do not count are those that find wait_start with
\* prot = None before its deadline, which leave the record as it is.
C3_DownWithinThreeTicks ==
    [][(TickStep /\ db.target_state = "down" /\ ~Alive(db.prot)) =>
          /\ db'.target_state = "down" /\ db'.prot = db.prot
          /\ IF Waiting(db, now) THEN db' = db
             ELSE IF db.next_action = "down" THEN db' = db
             ELSE Rank(db') < Rank(db)]_vars

C3_Witness ==
    /\ op = "tick" /\ run = 3 /\ still = 3
    /\ db.target_state = "down" /\ Dead(db.prot)
    /\ db.next_action = "down" /\ db.at = now + KillGrace

\* C4 (as claimed, for the records in up, where the bound is one call: the
\* up branch reads no clock, so a call that leaves the record in up is
\* repeated by every later call): with target_state = up and prot reporting
\* an exit code, the call brings next_action to start_at.
C4_ExitLeadsToStartAt ==
    [][(TickStep /\ db.target_state = "up" /\ db.next_action = "up" /\ Dead(db.prot))
          => db'.next_action = "start_at"]_vars

SleepNotIncreasing ==
    (still >= 1 /\ actions.sleep /= None /\ actions'.sleep /= None)
        => actions'.sleep[1] <= actions.sleep[1]

\* C5 (as claimed): with clock, target_state and prot unchanged, the second
\* and later calls leave next_action unchanged, and sleep does not increase.
C5_SameAfterFirstCall ==
    [][TickStep =>
          /\ still >= 1 => db'.next_action = db.next_action
          /\ SleepNotIncreasing]_vars

\* C5 (amended): with clock and prot unchanged from outside and the operator
\* leaving target_state alone, next_action may change in up to four calls
\* and is left unchanged by the fifth and every later call when agent_script
\* is present; when it is absent, the later calls leave it unchanged or
\* alternate between down and start; sleep does not increase from one call
\* to the next.
C5_SameAfterFourCalls ==
    [][TickStep =>
          /\ (still >= 4 /\ db.agent_script /= None) => db'.next_action = db.next_action
          /\ (still >= 4 /\ db.agent_script = None) =>
                \/ db'.next_action = db.next_action
                \/ {db.next_action, db'.next_action} = {"down", "start"}
          /\ SleepNotIncreasing]_vars

C5_Witness ==
    /\ op = "tick" /\ still = 5 /\ db.agent_script /= None
    /\ db.next_action = "wait_start" /\ db.at = now + LaunchWait
    /\ HasMessage(actions, "Launched") = FALSE /\ actions.launch = FALSE

\* C6 (as claimed): once the missing agent_script has been reported, the
\* instance stays at next_action = down on every later tick while
\* target_state = up.
C6_StaysDown ==
    [][(TickStep /\ db.agent_script = None /\ db.target_state = "up"
          /\ db.next_action = "down"
          /\ HasMessage(actions, "No Agent script registered for class"))
          => db'.next_action = "down"]_vars

\* C6 (amended): with agent_script absent no Decision ever has launch = true
\* and next_action is always down or start; with target_state = up a call
\* made in start reports 'No Agent script registered' and sets down, and the
\* next call made in down goes back to start (so the report repeats every
\* second tick rather than the instance staying at down).
C6_AlternatesDownStart ==
    /\ [](db.agent_script = None =>
            /\ ~actions.launch /\ ~pending
            /\ db.next_action \in {"down", "start"})
    /\ [][(TickStep /\ db.agent_script = None /\ db.target_state = "up") =>
            /\ db.next_action = "start" =>
                  /\ db'.next_action = "down"
                  /\ HasMessage(actions', "No Agent script registered for class")
            /\ db.next_action = "down" => db'.next_action = "start"]_vars

C6_Witness ==
    /\ op = "tick" /\ db.agent_script = None /\ db.target_state = "up"
    /\ db.next_action = "down"
    /\ HasMessage(actions, "No Agent script registered for class")

\* C7 (as claimed): a call leaves target_state unchanged.
C7_TargetUnchanged == [][TickStep => db'.target_state = db.target_state]_vars

UnexpectedAlive(d) ==
    d.next_action = "down" /\ d.target_state = "down" /\ Alive(d.prot)

\* C7 (amended): a call leaves target_state unchanged except when it finds
\* next_action = down, target_state = down and a prot that reports alive: it
\* then sets target_state to up.
C7_TargetUnchangedButUnexpectedAlive ==
    [][TickStep =>
          db'.target_state = IF UnexpectedAlive(db) THEN "up" ELSE db.target_state]_vars

C7_Witness ==
    /\ op = "tick" /\ db.target_state = "up" /\ db.next_action = "down"
    /\ HasMessage(actions, "Detected unexpected session")

\* C8: in wait_start and wait_dead the call does the same whatever
\* target_state is: run on the record with either target, at the same clock,
\* it yields the same next_action, at, prot, start_times and Decision, and
\* leaves the target it was given.
C8_Uninterruptible ==
    [][(TickStep /\ db.next_action \in {"wait_start", "wait_dead"}) =>
          \A g \in TargetStates :
              LET r == resolve_child_state([db EXCEPT !.target_state = g], now)
              IN  /\ r.db = [db' EXCEPT !.target_state = g]
                  /\ db'.target_state = db.target_state
                  /\ r.actions = actions'
                  /\ r.raised = raised']_vars

C8_Witness ==
    /\ op = "tick" /\ db.target_state = "down" /\ db.next_action = "start_at"
    /\ HasMessage(actions, "Launch not detected")

\* C9 (as claimed): in wait_start with prot = None and now < at the call
\* leaves next_action = wait_start and returns sleep = at - now.
C9_WaitStartSleep ==
    [][(TickStep /\ Waiting(db, now)) =>
          /\ db'.next_action = "wait_start"
          /\ actions'.sleep = Some(db.at - now)]_vars

\* C10: while the operator leaves target_state at up, no launch is decided
\* less than 3 s after the call that detected an unexpected exit, nor less
\* than 5 s after the call that reported a launch as not detected; and a
\* launch is reported as not detected no less than 1 s after it was requested.
C10_Backoff ==
    /\ (op = "tick" /\ actions.launch /\ backoff.kind = "exit") => now >= backoff.t + 3
    /\ (op = "tick" /\ actions.launch /\ backoff.kind = "undetected") => now >= backoff.t + 5
    /\ (op = "tick" /\ HasMessage(actions, "Launch not detected")) =>
           /\ Len(db.start_times) > 0
           /\ now >= db.start_times[Len(db.start_times)] + 1

C10_Witness ==
    /\ op = "tick" /\ actions.launch /\ backoff.kind = "undetected"
    /\ Len(db.start_times) = 2
\* C11 (as claimed, for the first tick after the timeout): after the call
\* that reported 'refused to die' and set next_action = down, with
\* target_state still down, the next call leaves next_action = down and
\* target_state = down and decides no launch, although prot still reports
\* alive.
C11_AbandonedStaysDown ==
    [][(TickStep /\ HasMessage(actions, "Agent instance refused to die")
          /\ db.next_action = "down" /\ db.target_state = "down")
          => /\ db'.next_action = "down"
             /\ db'.target_state = "down"
             /\ ~actions'.launch]_vars

\* C12 (as claimed): when next_action is wait_start or up, prot is None or
\* an executor that has not reported an exit code.
C12_NoExitedProtWhileUp ==
    db.next_action \in {"wait_start", "up"} => ~Dead(db.prot)

ExitedWhileUp == db.next_action \in {"wait_start", "up"} /\ Dead(db.prot)

\* C12 (amended): when next_action is up, prot is not None; when
\* next_action is wait_start or up, prot can hold an executor that has
\* reported an exit code, but only because the exit was reported from
\* outside while the record was in wait_start or up: no call of the state
\* machine brings a record with an exited prot into wait_start or up (the
\* call that enters wait_start sets prot = None, the call that enters up
\* keeps the prot that wait_start held).
C12_ExitedProtOnlyFromOutside ==
    /\ [](db.next_action = "up" => db.prot /= None)
    /\ [][(~ExitedWhileUp /\ ExitedWhileUp') => op' = "env"]_vars
    /\ [][(TickStep /\ db'.next_action = "wait_start" /\ db.next_action /= "wait_start")
             => db'.prot = None]_vars

C12_Witness == op = "tick" /\ db.next_action = "up" /\ Dead(db.prot) /\ HasMessage(actions, "Launched")
\* The list the claim describes: of the last 200 entries, those other than
\* the final one that are not older than now - window, then the final entry.
KeptByTheClaim(times, t) ==
    LET last200 == LastN(times, 200)
        InWindow(x) == x >= t - 120
    IN  SelectSeq(SubSeq(last200, 1, Len(last200) - 1), InWindow)
            \o <<times[Len(times)]>>

\* C13: for a non-empty list stability_factor returns the list the claim
\* describes, of length at least 1 and at most min(200, input length), and
\* the factor 1 / its length; for the empty list it returns the empty list
\* and -1.
C13_StabilityFactor ==
    op = "cull" =>
        LET times == db.start_times
            out == stability.times
        IN  IF Len(times) = 0
            THEN out = <<>> /\ stability.factor = Fraction(-1, 1)
            ELSE /\ out = KeptByTheClaim(times, now)
                 /\ Len(out) >= 1
                 /\ Len(out) <= 200 /\ Len(out) <= Len(times)
                 /\ stability.factor = Fraction(1, Len(out))

C13_Witness ==
    /\ op = "cull" /\ Len(db.start_times) = 201
    /\ Len(stability.times) = 199 /\ stability.times[1] = 100
\* C14: a call made with next_action one of the six enumerated values
\* leaves it one of the six, whatever target_state, prot and the clock are.
C14_NextActionEnumerated ==
    [][(TickStep /\ db.next_action \in NextActions) => db'.next_action \in NextActions]_vars

C14_Witness ==
    /\ op = "tick" /\ db.next_action = "down"
    /\ HasMessage(actions, "Modifying state to idle")

\* The combinations the transition tables do not list: wait_start and
\* wait_dead are handled for every target; every other next_action is
\* listed for target up and for target down only if it is one of the six.
Unenumerated(d) ==
    /\ d.next_action \notin {"wait_start", "wait_dead"}
    /\ d.next_action \notin NextActions \/ d.target_state \notin TargetStates

\* C16 (as claimed): a call made on a combination outside the enumerated
\* transitions emits 'State machine failure', leaves the record unchanged
\* and sets neither launch nor terminate.
C16_FailureOnUnenumerated ==
    [][(TickStep /\ Unenumerated(db)) =>
          /\ HasMessage(actions', "State machine failure")
          /\ db' = db
          /\ ~actions'.launch /\ ~actions'.terminate]_vars
\* C15 (as claimed): called on the same record at the same clock value,
\* host_master.resolve_child_state and host_manager.resolve_child_state
\* both return, and agree on next_action, at, prot, target_state, launch
\* and terminate, unless next_action = down, target_state = down and prot
\* reports alive.
C15_MasterAgreesWithManager ==
    [][(TickStep /\ ~UnexpectedAlive(db)) =>
          LET m == master_resolve_child_state(db, now)
          IN  /\ m.raised = raised'
              /\ m.db.next_action = db'.next_action
              /\ m.db.at = db'.at
              /\ m.db.prot = db'.prot
              /\ m.db.target_state = db'.target_state
              /\ m.actions.launch = actions'.launch
              /\ m.actions.terminate = actions'.terminate]_vars

NonDecreasing(times) == \A i \in 1..(Len(times) - 1) : times[i] <= times[i + 1]

\* C17: a Decision has launch = true exactly when the call finds
\* target_state = up, next_action = start and agent_script present; that
\* call sets prot = None, next_action = wait_start and at = now + 1 and
\* appends now to start_times; no other call and no step from outside
\* changes start_times; so start_times, empty at first, grows by one entry
\* per launch decision and is non-decreasing.
C17_LaunchAndStartTimes ==
    /\ [][TickStep =>
            /\ actions'.launch <=>
                  /\ db.target_state = "up" /\ db.next_action = "start"
                  /\ db.agent_script /= None
            /\ actions'.launch =>
                  db' = [db EXCEPT !.prot = None, !.next_action = "wait_start",
                                   !.at = now + 1,
                                   !.start_times = Append(db.start_times, now)]
            /\ ~actions'.launch => db'.start_times = db.start_times]_vars
    /\ [][~TickStep => db'.start_times = db.start_times]_vars
    /\ [](NonDecreasing(db.start_times)
            /\ \A i \in 1..Len(db.start_times) : db.start_times[i] <= now)

C17_Witness ==
    /\ op = "tick" /\ actions.launch /\ Len(db.start_times) = 2
    /\ db.start_times[1] < db.start_times[2] /\ db.start_times[2] = now

\* C18: in wait_dead, with prot = None or prot reporting an exit code the
\* call sets next_action = down whatever the deadline and target_state are,
\* with terminate = false and no 'refused to die' message; with prot alive
\* and now < at it stays in wait_dead and returns sleep = at - now.
C18_WaitDead ==
    [][(TickStep /\ db.next_action = "wait_dead") =>
          /\ ~Alive(db.prot) =>
                /\ db'.next_action = "down"
                /\ ~actions'.terminate
                /\ ~HasMessage(actions', "Agent instance refused to die")
          /\ (Alive(db.prot) /\ now < db.at) =>
                /\ db'.next_action = "wait_dead"
                /\ actions'.sleep = Some(db.at - now)]_vars

C18_Witness ==
    /\ op = "tick" /\ db.next_action = "wait_dead" /\ Alive(db.prot)
    /\ actions.sleep = Some(db.at - now)

\* C19: the state machine never requests a launch while a live child is
\* still held by the record: before every call that returns launch = true
\* prot is None or reports an exit code.
C19_NoLaunchOverLiveChild ==
    [][(TickStep /\ actions'.launch) => ~Alive(db.prot)]_vars

\* C20: with target_state = up kept, agent_script present, fair ticks, each
\* launch request carried out before the detection deadline and a child that
\* never exits, the record started at (down, prot = None) eventually reaches
\* next_action = up and stays there for ever, and exactly one Decision has
\* launch = true.
C20_ComesUpOnce ==
    /\ <>[](db.next_action = "up" /\ Alive(db.prot) /\ Len(db.start_times) = 1)
    /\ [][(TickStep /\ actions'.launch) => Len(db.start_times) = 0]_vars
    /\ [][TickStep => (actions'.launch <=>
                          Len(db'.start_times) = Len(db.start_times) + 1)]_vars

C20_Witness ==
    /\ op = "tick" /\ db.next_action = "up" /\ Alive(db.prot)
    /\ Len(db.start_times) = 1 /\ now > db.at /\ still > 1

=============================================================================
